---- MODULE Spec2Model ----
(***************************************************************************)
(* Model of simple-http-rs (src/src/main.rs): the header table, the        *)
(* request parser, the response serializer and the per-connection driver   *)
(* loop.  Bytes are one-character strings, byte strings are sequences of   *)
(* them.  The wire alphabet is ASCII (spec section 6).                     *)
(***************************************************************************)
EXTENDS Integers, Sequences, FiniteSets, TLC

(* ------------------------------------------------------------------ *)
(* Byte-string helpers                                                 *)
(* ------------------------------------------------------------------ *)

CR == "\r"
LF == "\n"
SP == " "
\* the zero byte of vec![0; length]
NUL == "<00>"

CRLF == <<CR, LF>>
\* the separator of str.split(" ") on the request line
SPACE_SEP == <<SP>>
\* the separator of str.split(": ") on a header line
HEADER_SEP == <<":", SP>>

Min(a, b) == IF a <= b THEN a ELSE b

\* the first n bytes of s (all of s when it is shorter), and the rest
Take(s, n) == SubSeq(s, 1, Min(n, Len(s)))
Drop(s, n) == SubSeq(s, Min(n, Len(s)) + 1, Len(s))

StartsWith(s, p) == Len(s) >= Len(p) /\ Take(s, Len(p)) = p
EndsWith(s, p) == Len(s) >= Len(p) /\ Drop(s, Len(s) - Len(p)) = p

UPPER == <<"A","B","C","D","E","F","G","H","I","J","K","L","M",
           "N","O","P","Q","R","S","T","U","V","W","X","Y","Z">>
LOWER == <<"a","b","c","d","e","f","g","h","i","j","k","l","m",
           "n","o","p","q","r","s","t","u","v","w","x","y","z">>

ToLowerChar(ch) ==
    IF \E i \in 1..Len(UPPER) : UPPER[i] = ch
    THEN LOWER[CHOOSE i \in 1..Len(UPPER) : UPPER[i] = ch]
    ELSE ch

\* String::to_lowercase on an ASCII string
to_lowercase(s) == [i \in 1..Len(s) |-> ToLowerChar(s[i])]

\* In the recursive operators below a one-element set binds the
\* arguments to their values, so that each level of the recursion
\* evaluates them once.

\* str::trim_end_matches("\r\n"): strips every trailing repetition
RECURSIVE trim_end_matches(_, _)
trim_end_matches(s0, pat) ==
    CHOOSE trimmed \in
        {IF EndsWith(s, pat)
         THEN trim_end_matches(Take(s, Len(s) - Len(pat)), pat)
         ELSE s : s \in {s0}} : TRUE

\* str::split(sep): the pieces between the non-overlapping occurrences of
\* sep, scanned left to right; n occurrences give n + 1 pieces.
RECURSIVE SplitFrom(_, _, _)
SplitFrom(s0, sep, cur0) ==
    CHOOSE pieces \in
        {IF s = <<>> THEN <<cur>>
         ELSE IF StartsWith(s, sep)
              THEN <<cur>> \o SplitFrom(Drop(s, Len(sep)), sep, <<>>)
              ELSE SplitFrom(Drop(s, 1), sep, Append(cur, s[1])) :
            s \in {s0}, cur \in {cur0}} : TRUE

split(s, sep) == SplitFrom(s, sep, <<>>)

DIGITS == <<"0","1","2","3","4","5","6","7","8","9">>

IsDigit(ch) == \E i \in 1..Len(DIGITS) : DIGITS[i] = ch
DigitVal(ch) == (CHOOSE i \in 1..Len(DIGITS) : DIGITS[i] = ch) - 1

RECURSIVE DigitsVal(_, _)
DigitsVal(s0, accv0) ==
    CHOOSE val \in
        {IF s = <<>> THEN accv
         ELSE DigitsVal(Drop(s, 1), accv * 10 + DigitVal(s[1])) :
            s \in {s0}, accv \in {accv0}} : TRUE

\* str::parse::<usize>: an optional "+", then one or more decimal digits.
\* ParseOk says whether the result is Ok, ParseVal gives the value.
ParseDigits(s) == IF s # <<>> /\ s[1] = "+" THEN Drop(s, 1) ELSE s
ParseOk(s) ==
    /\ ParseDigits(s) # <<>>
    /\ \A i \in 1..Len(ParseDigits(s)) : IsDigit(ParseDigits(s)[i])
ParseVal(s) == DigitsVal(ParseDigits(s), 0)

\* usize::to_string
RECURSIVE to_string(_)
to_string(n) ==
    IF n < 10 THEN <<DIGITS[n + 1]>>
    ELSE to_string(n \div 10) \o <<DIGITS[(n % 10) + 1]>>


(* ------------------------------------------------------------------ *)
(* HTTPCodes, Headers (main.rs 30-106)                                 *)
(* ------------------------------------------------------------------ *)

HTTPCodes == {"OK", "NoContent", "BadRequest"}

as_str(code) ==
    CASE code = "OK" -> "200 OK"
      [] code = "NoContent" -> "204 No content"
      [] code = "BadRequest" -> "400 Bad Request"

CONTENT_LENGTH_HEADER == <<"C","o","n","t","e","n","t","-","L","e","n","g","t","h">>
CONNECTION_HEADER == <<"C","o","n","n","e","c","t","i","o","n">>
HOST_HEADER == <<"H","o","s","t">>
\* the literals of handle_connection and send_response
CONTENT_TYPE_LC == <<"C","o","n","t","e","n","t","-","t","y","p","e">>
CONTENT_TYPE_HEADER == <<"C","o","n","t","e","n","t","-","T","y","p","e">>
APPLICATION_JSON == <<"a","p","p","l","i","c","a","t","i","o","n","/","j","s","o","n">>
TEXT_HTML == <<"t","e","x","t","/","h","t","m","l",";"," ",
               "c","h","a","r","s","e","t","=","u","t","f","-","8">>
KEEP_ALIVE == <<"k","e","e","p","-","a","l","i","v","e">>
CLOSE == <<"c","l","o","s","e">>

\* A HashMap<String, String> is a set of <<key, value>> pairs with
\* distinct keys.
MapInsert(m, k, v) == {p \in m : p[1] # k} \cup {<<k, v>>}
MapHas(m, k) == \E p \in m : p[1] = k
MapGet(m, k) == (CHOOSE p \in m : p[1] = k)[2]

\* Headers::new
HeadersNew == [kv |-> {}, raw |-> {}]

\* add with kv keyed by the key as given
addKeepsCase(h, key, value) ==
    [kv |-> MapInsert(h.kv, key, value),
     raw |-> MapInsert(h.raw, key, value)]

\* Headers::add: kv under the lowercased key, raw under the key as given
add(h, key, value) ==
    [kv |-> MapInsert(h.kv, to_lowercase(key), value),
     raw |-> MapInsert(h.raw, key, value)]

\* Headers::get: Some(v) / None
has(h, key) == MapHas(h.kv, to_lowercase(key))
get(h, key) == MapGet(h.kv, to_lowercase(key))

\* Headers::get_content_length: Ok(l) exactly when the header is present
\* and parses as usize
content_length_ok(h) ==
    has(h, CONTENT_LENGTH_HEADER) /\ ParseOk(get(h, CONTENT_LENGTH_HEADER))
content_length(h) == ParseVal(get(h, CONTENT_LENGTH_HEADER))

\* Headers::iter: the entries of raw, in no particular order
iter(h) == h.raw

(* ------------------------------------------------------------------ *)
(* send_response (main.rs 225-270): the bytes put on the wire          *)
(* ------------------------------------------------------------------ *)

ConnectionValue(keep_alive) == IF keep_alive THEN KEEP_ALIVE ELSE CLOSE

\* lines 233-241: the three headers the serializer sets
ResponseHeaders(headers, keep_alive, body) ==
    add(add(add(headers, CONTENT_LENGTH_HEADER, to_string(Len(body))),
            CONTENT_TYPE_HEADER, TEXT_HTML),
        CONNECTION_HEADER, ConnectionValue(keep_alive))

\* the line written without the space after the colon
HeaderLineNoSpace(p) == p[1] \o <<":">> \o p[2] \o CRLF

\* line 250: format!("{}: {}\r\n", key, value)
HeaderLineOf(p) == p[1] \o HEADER_SEP \o p[2] \o CRLF

\* The response as written: status line, one line per entry of iter()
\* (HashMap order is unspecified, so the lines are kept as a set), body.
Response(status_code, headers, keep_alive, body) ==
    [status |-> as_str(status_code),
     lines |-> {HeaderLineOf(p) : p \in iter(ResponseHeaders(headers, keep_alive, body))},
     body |-> body]


(* ------------------------------------------------------------------ *)
(* Request and the parsing steps of handle_connection (main.rs 114-202)*)
(* ------------------------------------------------------------------ *)

\* the value of `request` before line 149 assigns it
NoRequest ==
    [method |-> <<>>, path |-> <<>>, version |-> <<>>,
     headers |-> HeadersNew, body |-> <<>>, keep_alive |-> FALSE]

\* lines 135-137: trim the terminator, split on " "
RequestLineParts(http_header) ==
    split(trim_end_matches(http_header, CRLF), SPACE_SEP)

\* line 138: parts.len() != 3 is a bad request line
RequestLineValid(http_header) == Len(RequestLineParts(http_header)) = 3

\* lines 149-156
NewRequest(http_header) ==
    [method |-> RequestLineParts(http_header)[1],
     path |-> RequestLineParts(http_header)[2],
     version |-> RequestLineParts(http_header)[3],
     headers |-> HeadersNew, body |-> <<>>, keep_alive |-> TRUE]

\* only a line terminator on its own ends the header loop
EndOfHeadersBlankOnly(chunk) == chunk = CRLF \/ chunk = <<LF>>

\* line 176: a chunk of raw length <= 2 ends the header loop
EndOfHeaders(chunk) == Len(chunk) <= 2

\* lines 180-182
HeaderParts(chunk) == split(trim_end_matches(chunk, CRLF), HEADER_SEP)

\* the test parts.len() < 2 in place of parts.len() != 2
HeaderAcceptedTwoOrMore(chunk) == Len(HeaderParts(chunk)) >= 2

\* line 183: parts.len() != 2 skips the line
HeaderAccepted(chunk) == Len(HeaderParts(chunk)) = 2

\* line 190: the comparison that clears keep_alive
IsCloseHeader(key, value) == key = CONNECTION_HEADER /\ value = CLOSE

\* lines 186-192: store the header, clear keep_alive on Connection: close
StoreHeader(req, key, value) ==
    [req EXCEPT !.headers = add(req.headers, key, value),
                !.keep_alive = IF IsCloseHeader(key, value) THEN FALSE
                               ELSE req.keep_alive]

\* lines 180-192: one pass of the header loop on a chunk longer than 2
HeaderStep(req, chunk) ==
    IF HeaderAccepted(chunk)
    THEN StoreHeader(req, HeaderParts(chunk)[1], HeaderParts(chunk)[2])
    ELSE req

\* lines 173-193: the header loop run on the chunks the reads return, up
\* to the first chunk that ends it
RECURSIVE HeaderStage(_, _)
HeaderStage(req, reads) ==
    IF reads = <<>> \/ EndOfHeaders(Head(reads)) THEN req
    ELSE HeaderStage(HeaderStep(req, Head(reads)), Tail(reads))

Zeros(n) == [i \in 1..n |-> NUL]

\* lines 199-201: body = vec![0; length]; one stream.read(&mut body) copies
\* min(length, available) bytes into its front and its count is dropped.
BodyCount(length, avail) == Min(length, Len(avail))

BodyBuffer(length, avail) ==
    Take(avail, BodyCount(length, avail)) \o Zeros(length - BodyCount(length, avail))

\* lines 205-210: the caller's header table of the 204 response
ReplyHeaders(req) ==
    add(add(HeadersNew, CONTENT_TYPE_LC, APPLICATION_JSON),
        HOST_HEADER, get(req.headers, HOST_HEADER))

\* lines 139-145 and 159-165: the 400 response
BadRequestResponse == Response("BadRequest", HeadersNew, FALSE, <<>>)

\* the 204 response written with the flag true whatever the request said
NoContentResponseKeepAlive(req) ==
    Response("NoContent", ReplyHeaders(req), TRUE, <<>>)

\* lines 212-218: the 204 response
NoContentResponse(req) ==
    Response("NoContent", ReplyHeaders(req), req.keep_alive, <<>>)


(* ------------------------------------------------------------------ *)
(* Inputs: what a peer may send                                        *)
(* ------------------------------------------------------------------ *)

\* the most requests one peer sends on a connection
MaxReqs == 2
\* where a request line and a body are cut into two TCP segments
FirstCut == 1

GoodLine == <<"G", SP, "/", SP, "H", CR, LF>>
TwoTokenLine == <<"G", SP, "/", CR, LF>>
FourTokenLine == <<"G", SP, "/", SP, "H", SP, "x", CR, LF>>

Hdr(name, value) == name \o HEADER_SEP \o value \o CRLF

H_Host == Hdr(HOST_HEADER, <<"h">>)
H_HostLower == Hdr(to_lowercase(HOST_HEADER), <<"g">>)
H_Close == Hdr(CONNECTION_HEADER, CLOSE)
H_KeepAlive == Hdr(CONNECTION_HEADER, KEEP_ALIVE)
H_CloseLower == Hdr(to_lowercase(CONNECTION_HEADER), CLOSE)
H_Len2 == Hdr(CONTENT_LENGTH_HEADER, <<"2">>)
H_Len0 == Hdr(CONTENT_LENGTH_HEADER, <<"0">>)
H_TwoSep == Hdr(<<"X">>, <<"a", ":", SP, "b">>)
H_NoSep == <<"j", "u", "n", "k", CR, LF>>
\* a one-character line ended by a bare LF: raw length 2
H_OneChar == <<"x", LF>>

\* a request as the peer writes it: request line, header lines, the blank
\* line, body
Req(line, headers, body) ==
    [line |-> line, headers |-> headers, blank |-> CRLF, body |-> body]

R_Plain == Req(GoodLine, <<H_Host>>, <<>>)
R_NoHost == Req(GoodLine, <<>>, <<>>)
R_Close == Req(GoodLine, <<H_Host, H_Close>>, <<>>)
R_CloseNoHost == Req(GoodLine, <<H_Close>>, <<>>)
R_CloseThenKeep == Req(GoodLine, <<H_Close, H_Host, H_KeepAlive>>, <<>>)
R_CloseLower == Req(GoodLine, <<H_Host, H_CloseLower>>, <<>>)
R_Body == Req(GoodLine, <<H_Host, H_Len2>>, <<"a", "b">>)
R_Body0 == Req(GoodLine, <<H_Host, H_Len0>>, <<>>)
R_TwoSep == Req(GoodLine, <<H_TwoSep, H_Host>>, <<>>)
R_NoSep == Req(GoodLine, <<H_NoSep, H_Host>>, <<>>)
R_HostTwice == Req(GoodLine, <<H_Host, H_HostLower>>, <<>>)
R_OneChar == Req(GoodLine, <<H_Host, H_OneChar, H_Close>>, <<>>)
\* a request that stops after a header line: no blank line follows
R_Truncated == [Req(GoodLine, <<H_Host>>, <<>>) EXCEPT !.blank = <<>>]
R_TwoTokens == Req(TwoTokenLine, <<>>, <<>>)
R_FourTokens == Req(FourTokenLine, <<H_Host>>, <<>>)

FirstRequests ==
    {R_Plain, R_NoHost, R_Close, R_CloseNoHost, R_CloseThenKeep, R_CloseLower, R_Body, R_Body0,
     R_TwoSep, R_NoSep, R_HostTwice, R_OneChar, R_Truncated, R_TwoTokens,
     R_FourTokens}

LaterRequests == {R_Plain, R_TwoTokens}

\* the scripts of a peer: a first request, then up to MaxReqs - 1 more
RECURSIVE Followed(_, _)
Followed(prefixes, n) ==
    IF n = 0 THEN prefixes
    ELSE prefixes \cup
         Followed({Append(p, r) : p \in prefixes, r \in LaterRequests}, n - 1)

Scripts == Followed({<<r>> : r \in FirstRequests}, MaxReqs - 1)

\* The finest segmentation the peer uses: the request line cut after
\* FirstCut bytes, each header line and the blank line on their own, the
\* body cut after FirstCut bytes.  Segments the worker has not read yet
\* pile up in the socket, so every coarser segmentation also occurs.
Pieces(r) ==
    <<Take(r.line, FirstCut), Drop(r.line, FirstCut)>> \o r.headers \o
    <<r.blank, Take(r.body, FirstCut), Drop(r.body, FirstCut)>>

Segments(script) ==
    LET RECURSIVE Tag(_, _)
        Tag(ps, k) ==
            IF ps = <<>> THEN <<>>
            ELSE (IF Head(ps) = <<>> THEN <<>>
                  ELSE <<[bytes |-> Head(ps), req |-> k]>>) \o Tag(Tail(ps), k)
        RECURSIVE All(_)
        All(k) ==
            IF k > Len(script) THEN <<>>
            ELSE Tag(Pieces(script[k]), k) \o All(k + 1)
    IN All(1)


(* ------------------------------------------------------------------ *)
(* State                                                               *)
(* ------------------------------------------------------------------ *)

Conns == {"c1", "c2"}

VARIABLES
    env,        \* per connection: what its peer does (fixed at Init)
    peer,       \* segments the peer has not sent yet
    sock,       \* bytes in the socket, not yet read by the worker
    buf,        \* read buffer of the BufStream of the current cycle
    acc,        \* bytes read_until has appended to its Vec so far
    pc,         \* position of the connection's worker
    cycle,      \* number of the current handle_connection call
    request,    \* the Request being built
    chunks,     \* header chunks (longer than 2) read for this request
    wire,       \* complete responses flushed to the peer
    reqlines,   \* request lines read (http_header of each cycle)
    parsed,     \* requests that left the body stage
    faults,     \* the I/O faults that hit the connection
    panicked,   \* the worker task ended in a panic
    partial,    \* a failed write left part of a response on the wire
    lost,       \* bytes dropped with the BufStream of a finished cycle
    table,      \* a Headers value under construction
    added,      \* the add calls made on table, in order
    looked,     \* the last get call on table and what it returned
    unsent,     \* entries of the response headers not yet written
    reread,     \* the Request the header stage builds from written lines
    tpc         \* position of the table's user

\* the variables of the Headers value, which no connection touches
tableVars == <<table, added, looked, unsent, reread, tpc>>

vars == <<env, peer, sock, buf, acc, pc, cycle, request, chunks, wire,
          reqlines, parsed, faults, panicked, partial, lost, tableVars>>

PCs == {"Listening", "AwaitingRequest", "Headers", "Body", "Responding", "Closed"}

\* outcomes of the writes and the flush of send_response
WriteOutcomes == {"ok", "failed", "failed_partway"}

\* a peer that never connects
NoPeer == [dials |-> FALSE, script |-> <<>>, hangup |-> FALSE, patient |-> FALSE]

\* dials: connects at all; hangup: closes its end after its last byte;
\* patient: sends request k + 1 only after the response to request k
Peers ==
    [dials : {TRUE}, script : Scripts, hangup : BOOLEAN, patient : BOOLEAN]

\* no get call made yet
NoLookup == [name |-> <<>>, found |-> FALSE, value |-> <<>>]

InitOf(e) ==
    /\ env = e
    /\ peer = [c \in Conns |-> Segments(e[c].script)]
    /\ sock = [c \in Conns |-> <<>>]
    /\ buf = [c \in Conns |-> <<>>]
    /\ acc = [c \in Conns |-> <<>>]
    /\ pc = [c \in Conns |-> "Listening"]
    /\ cycle = [c \in Conns |-> 1]
    /\ request = [c \in Conns |-> NoRequest]
    /\ chunks = [c \in Conns |-> <<>>]
    /\ wire = [c \in Conns |-> <<>>]
    /\ reqlines = [c \in Conns |-> <<>>]
    /\ parsed = [c \in Conns |-> <<>>]
    /\ faults = [c \in Conns |-> {}]
    /\ panicked = [c \in Conns |-> FALSE]
    /\ partial = [c \in Conns |-> FALSE]
    /\ lost = [c \in Conns |-> <<>>]
    /\ table = HeadersNew
    /\ added = <<>>
    /\ looked = NoLookup
    /\ unsent = {}
    /\ reread = NoRequest
    /\ tpc = "Building"

\* one peer with any script; the other never connects
Init == \E p \in Peers : InitOf([c \in Conns |-> IF c = "c1" THEN p ELSE NoPeer])

(* ------------------------------------------------------------------ *)
(* The transport as the BufStream sees it                              *)
(* ------------------------------------------------------------------ *)

\* the peer has closed its end and every byte it sent has been read
Eof(c) == env[c].hangup /\ peer[c] = <<>> /\ sock[c] = <<>>

\* a read can return: buffered bytes, bytes in the socket, or end of file
CanRead(c) == buf[c] # <<>> \/ sock[c] # <<>> \/ Eof(c)

\* fill_buf: the buffer if it holds bytes, else everything the socket has
Avail(c) == IF buf[c] # <<>> THEN buf[c] ELSE sock[c]
SockAfterFill(c) == IF buf[c] # <<>> THEN sock[c] ELSE <<>>

HasLF(s) == \E i \in 1..Len(s) : s[i] = LF
FirstLF(s) == CHOOSE i \in 1..Len(s) : s[i] = LF /\ \A j \in 1..(i - 1) : s[j] # LF

\* read_until(b'\n') returns when the delimiter is found or at end of file
LineDone(c) == HasLF(Avail(c)) \/ Avail(c) = <<>>

\* the Vec read_until has filled when it returns
Line(c) ==
    IF HasLF(Avail(c)) THEN acc[c] \o Take(Avail(c), FirstLF(Avail(c)))
    ELSE acc[c]

BufAfterLine(c) ==
    IF HasLF(Avail(c)) THEN Drop(Avail(c), FirstLF(Avail(c))) ELSE <<>>


(* ------------------------------------------------------------------ *)
(* Steps shared by the actions                                         *)
(* ------------------------------------------------------------------ *)

\* main.rs 20-23: the worker loops again on true, breaks on false
AfterCycle(keep_alive) == IF keep_alive THEN "AwaitingRequest" ELSE "Closed"

\* the 400 path returning true, as the 204 path may
BadRequestReturnsTrue == TRUE

\* lines 147 and 167: what handle_connection returns after the 400
BadRequestReturn == FALSE

\* handle_connection returns keep_alive with `s` left in the socket: the
\* BufStream of the cycle is dropped with the bytes `b` its read buffer
\* holds (main.rs 18: the next cycle makes a new one);
\* on false the worker ends and the socket is dropped with it, so the
\* peer can send nothing more.
Returns(c, keep_alive, s, b) ==
    /\ lost' = [lost EXCEPT ![c] = IF keep_alive THEN @ \o b ELSE @]
    /\ pc' = [pc EXCEPT ![c] = AfterCycle(keep_alive)]
    /\ cycle' = [cycle EXCEPT ![c] = IF keep_alive THEN @ + 1 ELSE @]
    /\ request' = [request EXCEPT ![c] = IF keep_alive THEN NoRequest ELSE @]
    /\ chunks' = [chunks EXCEPT ![c] = IF keep_alive THEN <<>> ELSE @]
    /\ sock' = [sock EXCEPT ![c] = IF keep_alive THEN s ELSE <<>>]
    /\ peer' = [peer EXCEPT ![c] = IF keep_alive THEN @ ELSE <<>>]
    /\ buf' = [buf EXCEPT ![c] = <<>>]
    /\ acc' = [acc EXCEPT ![c] = <<>>]

\* a panic that ends the whole process (panic = "abort"), and with it the
\* worker of every connection
PanicsEndProcess(c, errs) ==
    /\ pc' = [d \in Conns |-> "Closed"]
    /\ panicked' = [panicked EXCEPT ![c] = TRUE]
    /\ faults' = [faults EXCEPT ![c] = @ \cup errs]
    /\ sock' = [sock EXCEPT ![c] = <<>>]
    /\ peer' = [peer EXCEPT ![c] = <<>>]
    /\ buf' = [buf EXCEPT ![c] = <<>>]
    /\ acc' = [acc EXCEPT ![c] = <<>>]
    /\ UNCHANGED lost

\* an unwrap()/expect() fails: the worker task ends there and the socket
\* is dropped; errs holds the I/O fault that caused it, if one did
Panics(c, errs) ==
    /\ pc' = [pc EXCEPT ![c] = "Closed"]
    /\ panicked' = [panicked EXCEPT ![c] = TRUE]
    /\ faults' = [faults EXCEPT ![c] = @ \cup errs]
    /\ sock' = [sock EXCEPT ![c] = <<>>]
    /\ peer' = [peer EXCEPT ![c] = <<>>]
    /\ buf' = [buf EXCEPT ![c] = <<>>]
    /\ acc' = [acc EXCEPT ![c] = <<>>]
    /\ UNCHANGED lost

\* send_response, lines 243-266: with outcome "ok" the whole response is
\* flushed; otherwise a write_all or the flush failed and its unwrap panics
\* with nothing, or with a part of the response, on the wire.  errs holds
\* the read fault that led to this response, if one did.
Sends(c, resp, w, keep_alive, s, b, errs) ==
    /\ partial' = [partial EXCEPT ![c] = (w = "failed_partway")]
    /\ IF w = "ok"
       THEN /\ wire' = [wire EXCEPT ![c] =
                           Append(@, [cycle |-> cycle[c], status |-> resp.status,
                                      lines |-> resp.lines, body |-> resp.body])]
            /\ Returns(c, keep_alive, s, b)
            /\ faults' = [faults EXCEPT ![c] = @ \cup errs]
            /\ UNCHANGED panicked
       ELSE /\ Panics(c, errs \cup {"write"})
            /\ UNCHANGED <<wire, cycle, request, chunks>>

(* ------------------------------------------------------------------ *)
(* Actions                                                             *)
(* ------------------------------------------------------------------ *)

\* main.rs 17: handle_connection is called only when socket.readable()
\* and socket.writable() both return Ok
Ready(c) == "poll" \notin faults[c]

\* main.rs 13-15: accept and spawn the worker of the connection
Accept(c) ==
    /\ pc[c] = "Listening"
    /\ env[c].dials
    /\ pc' = [pc EXCEPT ![c] = "AwaitingRequest"]
    /\ UNCHANGED <<env, tableVars, lost, peer, sock, buf, acc, cycle, request, chunks, wire,
                   reqlines, parsed, faults, panicked, partial>>

\* main.rs 16-25: socket.readable() or socket.writable() returns Err.
\* The `if` has no else: the body is skipped and the loop starts over
\* without a break.  The failure stays, so from here on the worker goes
\* round the loop and changes nothing.
PollErr(c) ==
    /\ pc[c] = "AwaitingRequest"
    /\ acc[c] = <<>> /\ buf[c] = <<>>
    /\ Ready(c)
    /\ faults' = [faults EXCEPT ![c] = @ \cup {"poll"}]
    /\ UNCHANGED <<env, tableVars, lost, peer, sock, buf, acc, pc, cycle,
                   request, chunks, wire, reqlines, parsed, panicked, partial>>

\* the peer's next segment arrives in the socket
Deliver(c) ==
    /\ pc[c] \notin {"Listening", "Closed"}
    /\ peer[c] # <<>>
    /\ env[c].patient => Head(peer[c]).req <= Len(wire[c]) + 1
    /\ sock' = [sock EXCEPT ![c] = @ \o Head(peer[c]).bytes]
    /\ peer' = [peer EXCEPT ![c] = Tail(@)]
    /\ UNCHANGED <<env, tableVars, lost, buf, acc, pc, cycle, request, chunks, wire,
                   reqlines, parsed, faults, panicked, partial>>

\* read_until (lines 129, 175) takes all it can get and finds no '\n' yet
ReadMore(c) ==
    /\ pc[c] \in {"AwaitingRequest", "Headers"}
    /\ Ready(c)
    /\ CanRead(c)
    /\ ~LineDone(c)
    /\ acc' = [acc EXCEPT ![c] = @ \o Avail(c)]
    /\ buf' = [buf EXCEPT ![c] = <<>>]
    /\ sock' = [sock EXCEPT ![c] = SockAfterFill(c)]
    /\ UNCHANGED <<env, tableVars, lost, peer, pc, cycle, request, chunks, wire,
                   reqlines, parsed, faults, panicked, partial>>

\* the zero-byte read answered like the failed read of lines 158-168
RequestLineEofAnswered(c) ==
    /\ pc[c] = "AwaitingRequest"
    /\ Ready(c)
    /\ CanRead(c) /\ LineDone(c)
    /\ Len(Line(c)) = 0
    /\ \E w \in WriteOutcomes :
          Sends(c, BadRequestResponse, w, BadRequestReturn, <<>>, <<>>, {})
    /\ UNCHANGED <<env, tableVars, reqlines, parsed>>

\* lines 129-134: the read returns Ok(0), return false
RequestLineEof(c) ==
    /\ pc[c] = "AwaitingRequest"
    /\ Ready(c)
    /\ CanRead(c) /\ LineDone(c)
    /\ Len(Line(c)) = 0
    /\ Returns(c, FALSE, <<>>, <<>>)
    /\ UNCHANGED <<env, tableVars, wire, reqlines, parsed, faults, panicked, partial>>

\* lines 135-148: the line does not split in three: 400, return false
RequestLineBad(c) ==
    /\ pc[c] = "AwaitingRequest"
    /\ Ready(c)
    /\ CanRead(c) /\ LineDone(c)
    /\ Len(Line(c)) # 0
    /\ ~RequestLineValid(Line(c))
    /\ reqlines' = [reqlines EXCEPT ![c] = Append(@, Line(c))]
    /\ \E w \in WriteOutcomes :
          Sends(c, BadRequestResponse, w, BadRequestReturn, SockAfterFill(c),
                BufAfterLine(c), {})
    /\ UNCHANGED <<env, tableVars, parsed>>

\* lines 135-157: the line splits in three: the Request is created
RequestLineOk(c) ==
    /\ pc[c] = "AwaitingRequest"
    /\ Ready(c)
    /\ CanRead(c) /\ LineDone(c)
    /\ Len(Line(c)) # 0
    /\ RequestLineValid(Line(c))
    /\ reqlines' = [reqlines EXCEPT ![c] = Append(@, Line(c))]
    /\ request' = [request EXCEPT ![c] = NewRequest(Line(c))]
    /\ chunks' = [chunks EXCEPT ![c] = <<>>]
    /\ pc' = [pc EXCEPT ![c] = "Headers"]
    /\ acc' = [acc EXCEPT ![c] = <<>>]
    /\ buf' = [buf EXCEPT ![c] = BufAfterLine(c)]
    /\ sock' = [sock EXCEPT ![c] = SockAfterFill(c)]
    /\ UNCHANGED <<env, tableVars, lost, peer, cycle, wire, parsed, faults, panicked, partial>>

\* lines 158-168: the read of the request line returns Err: 400, return
\* false.  A read fails only when it reaches the socket (empty buffer).
RequestLineReadErr(c) ==
    /\ pc[c] = "AwaitingRequest"
    /\ Ready(c)
    /\ buf[c] = <<>>
    /\ \E w \in WriteOutcomes :
          Sends(c, BadRequestResponse, w, BadRequestReturn, sock[c], <<>>,
                {"read_request_line"})
    /\ UNCHANGED <<env, tableVars, reqlines, parsed>>


\* lines 173-192: a chunk longer than 2: split it, store it or skip it
HeaderChunk(c) ==
    /\ pc[c] = "Headers"
    /\ CanRead(c) /\ LineDone(c)
    /\ ~EndOfHeaders(Line(c))
    /\ request' = [request EXCEPT ![c] = HeaderStep(@, Line(c))]
    /\ chunks' = [chunks EXCEPT ![c] = Append(@, Line(c))]
    /\ acc' = [acc EXCEPT ![c] = <<>>]
    /\ buf' = [buf EXCEPT ![c] = BufAfterLine(c)]
    /\ sock' = [sock EXCEPT ![c] = SockAfterFill(c)]
    /\ UNCHANGED <<env, tableVars, lost, peer, pc, cycle, wire, reqlines, parsed, faults,
                   panicked, partial>>

\* lines 175-178: a chunk of length <= 2 breaks out of the header loop
HeaderEnd(c) ==
    /\ pc[c] = "Headers"
    /\ CanRead(c) /\ LineDone(c)
    /\ EndOfHeaders(Line(c))
    /\ pc' = [pc EXCEPT ![c] = "Body"]
    /\ acc' = [acc EXCEPT ![c] = <<>>]
    /\ buf' = [buf EXCEPT ![c] = BufAfterLine(c)]
    /\ sock' = [sock EXCEPT ![c] = SockAfterFill(c)]
    /\ UNCHANGED <<env, tableVars, lost, peer, cycle, request, chunks, wire, reqlines, parsed,
                   faults, panicked, partial>>

\* the header read handled like the request-line read of lines 158-168:
\* a 400 and return false instead of the unwrap()
HeaderReadErrAnswered(c) ==
    /\ pc[c] = "Headers"
    /\ buf[c] = <<>>
    /\ \E w \in WriteOutcomes :
          Sends(c, BadRequestResponse, w, BadRequestReturn, sock[c], <<>>,
                {"read_header"})
    /\ UNCHANGED <<env, tableVars, reqlines, parsed>>

\* line 175: the read of a header chunk returns Err and unwrap() panics
HeaderReadErr(c) ==
    /\ pc[c] = "Headers"
    /\ buf[c] = <<>>
    /\ Panics(c, {"read_header"})
    /\ UNCHANGED <<env, tableVars, cycle, request, chunks, wire, reqlines, parsed,
                   partial>>

\* what the body stage hands on: the request, the header chunks it was
\* built from, whether a length was declared, and the count read returned
Parsed(req, lines, declared, length, nread) ==
    [req |-> req, lines |-> lines, declared |-> declared,
     length |-> length, nread |-> nread]

\* lines 198-202 with get_content_length Ok(length): one read into the
\* zeroed body.  The read goes through the read buffer, which is filled
\* from the socket when empty, so it waits for a byte or for end of file.
BodyRead(c) ==
    /\ pc[c] = "Body"
    /\ content_length_ok(request[c].headers)
    /\ CanRead(c)
    /\ LET length == content_length(request[c].headers)
           body == BodyBuffer(length, Avail(c))
           n == BodyCount(length, Avail(c))
       IN /\ request' = [request EXCEPT ![c].body = body]
          /\ parsed' = [parsed EXCEPT ![c] =
                Append(@, Parsed([request[c] EXCEPT !.body = body],
                                 chunks[c], TRUE, length, n))]
          /\ buf' = [buf EXCEPT ![c] = Drop(Avail(c), n)]
          /\ sock' = [sock EXCEPT ![c] = SockAfterFill(c)]
    /\ pc' = [pc EXCEPT ![c] = "Responding"]
    /\ UNCHANGED <<env, tableVars, lost, peer, acc, cycle, chunks, wire, reqlines, faults,
                   panicked, partial>>

\* line 198 with get_content_length Err: no read, the body stays empty
BodySkip(c) ==
    /\ pc[c] = "Body"
    /\ ~content_length_ok(request[c].headers)
    /\ parsed' = [parsed EXCEPT ![c] =
          Append(@, Parsed(request[c], chunks[c], FALSE, 0, 0))]
    /\ pc' = [pc EXCEPT ![c] = "Responding"]
    /\ UNCHANGED <<env, tableVars, lost, peer, sock, buf, acc, cycle, request, chunks, wire,
                   reqlines, faults, panicked, partial>>

\* line 200: the read of the body returns Err and unwrap() panics
BodyReadErr(c) ==
    /\ pc[c] = "Body"
    /\ content_length_ok(request[c].headers)
    /\ buf[c] = <<>>
    /\ Panics(c, {"read_body"})
    /\ UNCHANGED <<env, tableVars, cycle, request, chunks, wire, reqlines, parsed,
                   partial>>

\* lines 205-222: the request has a Host header: 204, return keep_alive
Respond(c) ==
    /\ pc[c] = "Responding"
    /\ has(request[c].headers, HOST_HEADER)
    /\ \E w \in WriteOutcomes :
          Sends(c, NoContentResponse(request[c]), w, request[c].keep_alive,
                sock[c], buf[c], {})
    /\ UNCHANGED <<env, tableVars, reqlines, parsed>>

\* the missing Host answered with a 400 and return false
RespondNoHostAnswered(c) ==
    /\ pc[c] = "Responding"
    /\ ~has(request[c].headers, HOST_HEADER)
    /\ \E w \in WriteOutcomes :
          Sends(c, BadRequestResponse, w, BadRequestReturn, sock[c], buf[c], {})
    /\ UNCHANGED <<env, tableVars, reqlines, parsed>>

\* line 209: get("Host") is None and unwrap() panics before any write
RespondNoHost(c) ==
    /\ pc[c] = "Responding"
    /\ ~has(request[c].headers, HOST_HEADER)
    /\ Panics(c, {})
    /\ UNCHANGED <<env, tableVars, cycle, request, chunks, wire, reqlines, parsed,
                   partial>>

Next ==
    \E c \in Conns :
        \/ Accept(c)
        \/ PollErr(c)
        \/ Deliver(c)
        \/ ReadMore(c)
        \/ RequestLineEof(c)
        \/ RequestLineBad(c)
        \/ RequestLineOk(c)
        \/ RequestLineReadErr(c)
        \/ HeaderChunk(c)
        \/ HeaderEnd(c)
        \/ HeaderReadErr(c)
        \/ BodyRead(c)
        \/ BodySkip(c)
        \/ BodyReadErr(c)
        \/ Respond(c)
        \/ RespondNoHost(c)

Spec == Init /\ [][Next]_vars

\* two connections open at once: on the first a request with a body or a
\* bad request line, on the second a request without or with Host; both
\* peers close after their last byte
PeersA == [dials : {TRUE}, script : {<<R_Body>>, <<R_TwoTokens>>},
           hangup : {TRUE}, patient : {FALSE}]
PeersB == [dials : {TRUE}, script : {<<R_NoHost>>, <<R_Plain>>},
           hangup : {TRUE}, patient : {FALSE}]

InitMulti ==
    \E p \in PeersA, q \in PeersB :
        InitOf([c \in Conns |-> IF c = "c1" THEN p ELSE q])

SpecMulti == InitMulti /\ [][Next]_vars

\* the steps the worker task of c takes by itself when it is scheduled
WorkerStep(c) ==
    \/ ReadMore(c)
    \/ RequestLineEof(c) \/ RequestLineBad(c) \/ RequestLineOk(c)
    \/ HeaderChunk(c) \/ HeaderEnd(c)
    \/ BodyRead(c) \/ BodySkip(c)
    \/ Respond(c) \/ RespondNoHost(c)

\* fair scheduling: a connection that can move does move: the listener
\* accepts it, its peer sends what the script still holds, its worker is
\* run when it can step (tokio polls a woken task).  No fault is forced.
ConnStep(c) == Accept(c) \/ Deliver(c) \/ WorkerStep(c)

Fairness == \A c \in Conns : WF_vars(ConnStep(c))

SpecFair == Init /\ [][Next]_vars /\ Fairness

(* ------------------------------------------------------------------ *)
(* The Headers value on its own: add, get, and the way from             *)
(* send_response's header lines back through the header loop            *)
(* ------------------------------------------------------------------ *)

\* the most add calls made on one Headers value
MaxAdds == 2

\* names equal up to letter case, another name; a plain value, a value
\* that holds the separator, a value that holds a line feed
TableNames == {<<"K">>, <<"k">>, <<"B">>}
TableValues == {<<"v">>, <<"a", ":", SP, "b">>, <<"a", LF, "b">>}

connVars == <<env, peer, sock, buf, acc, pc, cycle, request, chunks, wire,
              reqlines, parsed, faults, panicked, partial, lost>>

\* no connection is open while the Headers value is exercised
InitTable == InitOf([c \in Conns |-> NoPeer])

\* lines 77-80: headers.add(name, value)
TableAdd(n, v) ==
    /\ tpc = "Building"
    /\ Len(added) < MaxAdds
    /\ table' = add(table, n, v)
    /\ added' = Append(added, <<n, v>>)
    /\ UNCHANGED <<connVars, looked, unsent, reread, tpc>>

\* lines 82-87: headers.get(name)
TableGet(n) ==
    /\ tpc = "Building"
    /\ looked' = [name |-> n, found |-> has(table, n),
                  value |-> IF has(table, n) THEN get(table, n) ELSE <<>>]
    /\ tpc' = "Looked"
    /\ UNCHANGED <<connVars, table, added, unsent, reread>>

\* lines 233-241: send_response adds its three headers to the table; the
\* entries of iter() are then written one line each, in HashMap order
TableSend(keep_alive) ==
    /\ tpc = "Building"
    /\ unsent' = iter(ResponseHeaders(table, keep_alive, <<>>))
    /\ reread' = NewRequest(GoodLine)
    /\ tpc' = "Sending"
    /\ UNCHANGED <<connVars, table, added, looked>>

\* the chunks read_until(b'\n') cuts written bytes into
RECURSIVE ChunksOf(_)
ChunksOf(bytes) ==
    IF bytes = <<>> THEN <<>>
    ELSE IF HasLF(bytes)
         THEN <<Take(bytes, FirstLF(bytes))>> \o ChunksOf(Drop(bytes, FirstLF(bytes)))
         ELSE <<bytes>>

\* lines 248-259 then 173-193: one entry is written as a line, and the
\* header loop of the reader takes what it reads of it
TableWriteLine(p) ==
    /\ tpc = "Sending"
    /\ p \in unsent
    /\ unsent' = unsent \ {p}
    /\ reread' = HeaderStage(reread, ChunksOf(HeaderLineOf(p)))
    /\ tpc' = IF \E i \in 1..Len(ChunksOf(HeaderLineOf(p))) :
                    EndOfHeaders(ChunksOf(HeaderLineOf(p))[i])
              THEN "Done" ELSE "Sending"
    /\ UNCHANGED <<connVars, table, added, looked>>

\* line 260 then 176: the blank line is written and ends the header loop
TableWriteBlank ==
    /\ tpc = "Sending"
    /\ unsent = {}
    /\ tpc' = "Done"
    /\ UNCHANGED <<connVars, table, added, looked, unsent, reread>>

NextTable ==
    \/ \E n \in TableNames, v \in TableValues : TableAdd(n, v)
    \/ \E n \in TableNames : TableGet(n)
    \/ \E keep_alive \in BOOLEAN : TableSend(keep_alive)
    \/ \E p \in unsent : TableWriteLine(p)
    \/ TableWriteBlank

SpecTable == InitTable /\ [][NextTable]_vars

TypeOK ==
    /\ pc \in [Conns -> PCs]
    /\ \A c \in Conns : faults[c] \subseteq
          {"poll", "read_request_line", "read_header", "read_body", "write"}


(* ------------------------------------------------------------------ *)
(* Vocabulary of the properties                                        *)
(* ------------------------------------------------------------------ *)

\* a line without its trailing "\r\n"
Trimmed(l) == trim_end_matches(l, CRLF)

\* the number of space-separated tokens of a request line
TokenCount(l) ==
    Cardinality({i \in 1..Len(Trimmed(l)) : Trimmed(l)[i] = SP}) + 1

\* the positions of a header line where ": " starts
SepAt(l) ==
    {i \in 1..(Len(Trimmed(l)) - 1) : Trimmed(l)[i] = ":" /\ Trimmed(l)[i + 1] = SP}
FirstSep(l) == CHOOSE i \in SepAt(l) : \A j \in SepAt(l) : i <= j
NameOf(l) == SubSeq(Trimmed(l), 1, FirstSep(l) - 1)
ValueOf(l) == SubSeq(Trimmed(l), FirstSep(l) + 2, Len(Trimmed(l)))

SameName(a, b) == to_lowercase(a) = to_lowercase(b)

\* the responses written in cycle k of connection c
ResponsesOf(c, k) == {i \in 1..Len(wire[c]) : wire[c][i].cycle = k}

BAD_REQUEST == "400 Bad Request"
NO_CONTENT == "204 No content"

(* ------------------------------------------------------------------ *)
(* C1                                                                  *)
(* ------------------------------------------------------------------ *)

\* C1: a request line that does not split into exactly three
\* space-separated tokens is the last one read on its connection: the
\* worker is Closed, the cycle has at most one response, and unless the
\* write itself failed it has exactly one, a 400 Bad Request, which is the
\* last response on the wire.
C1_BadRequestLineGets400AndCloses ==
    \A c \in Conns : \A i \in 1..Len(reqlines[c]) :
        TokenCount(reqlines[c][i]) # 3 =>
            /\ i = Len(reqlines[c])
            /\ pc[c] = "Closed"
            /\ Cardinality(ResponsesOf(c, i)) <= 1
            /\ "write" \notin faults[c] =>
                  /\ ResponsesOf(c, i) = {Len(wire[c])}
                  /\ wire[c][Len(wire[c])].status = BAD_REQUEST

\* a second request with a bad request line got its 400 after the 204 of
\* the first, and the connection is closed
C1_Witness ==
    \E c \in Conns :
        /\ Len(reqlines[c]) = 2
        /\ TokenCount(reqlines[c][2]) # 3
        /\ pc[c] = "Closed"
        /\ Len(wire[c]) = 2
        /\ wire[c][1].status = NO_CONTENT
        /\ wire[c][2].status = BAD_REQUEST


(* ------------------------------------------------------------------ *)
(* C2, C3                                                              *)
(* ------------------------------------------------------------------ *)

\* the Content-Length header lines of a request as the peer wrote it
LengthLines(r) ==
    {i \in 1..Len(r.headers) :
        SepAt(r.headers[i]) # {} /\ NameOf(r.headers[i]) = CONTENT_LENGTH_HEADER}

\* a request is well formed: three tokens on a CRLF-terminated request
\* line, header lines of the form name ": " value CRLF, the blank line,
\* and a body of the declared length (empty when none is declared)
WellFormed(r) ==
    /\ TokenCount(r.line) = 3 /\ EndsWith(r.line, CRLF)
    /\ \A i \in 1..Len(r.headers) :
          /\ EndsWith(r.headers[i], CRLF)
          /\ Cardinality(SepAt(r.headers[i])) = 1
    /\ r.blank = CRLF
    /\ Cardinality(LengthLines(r)) <= 1
    /\ \A i \in LengthLines(r) : ValueOf(r.headers[i]) = to_string(Len(r.body))
    /\ LengthLines(r) = {} => r.body = <<>>

\* the request has a Connection: close header line (name in any case)
AsksClose(lines) ==
    \E i \in 1..Len(lines) :
        /\ SepAt(lines[i]) # {}
        /\ SameName(NameOf(lines[i]), CONNECTION_HEADER)
        /\ ValueOf(lines[i]) = CLOSE

\* the peer of c sends exactly two well-formed requests without
\* Connection: close, the second after the response to the first, and
\* keeps the connection open; no I/O fault hits the connection
TwoPlainRequests(c) ==
    /\ env[c].dials /\ env[c].patient /\ ~env[c].hangup
    /\ Len(env[c].script) = 2
    /\ \A k \in 1..2 : WellFormed(env[c].script[k]) /\ ~AsksClose(env[c].script[k].headers)
    /\ faults[c] = {}

\* C2: a connection on which the peer sends two well-formed requests one
\* after the other, neither with Connection: close, is never closed, gets
\* one 204 per request in request order, and once both requests are read
\* and the worker is back in AwaitingRequest it has got exactly two.
C2_TwoRequestsTwoResponsesStillOpen ==
    \A c \in Conns :
        TwoPlainRequests(c) =>
            /\ pc[c] # "Closed"
            /\ Len(wire[c]) <= 2
            /\ \A i \in 1..Len(wire[c]) :
                  wire[c][i].cycle = i /\ wire[c][i].status = NO_CONTENT
            /\ (pc[c] = "AwaitingRequest" /\ peer[c] = <<>> /\ sock[c] = <<>>
                    /\ acc[c] = <<>>) => Len(wire[c]) = 2

\* the header chunks of parsed request k on c contain Connection: close
SaysClose(lines) ==
    \E i \in 1..Len(lines) :
        /\ SepAt(lines[i]) # {}
        /\ NameOf(lines[i]) = CONNECTION_HEADER
        /\ ValueOf(lines[i]) = CLOSE

\* C3: a parsed request with a Connection: close header line, wherever it
\* stands among the headers, has keep_alive false, is the last request of
\* its connection, and once the response stage is over exactly one
\* response was sent for it and the connection is Closed (no I/O fault).
C3_ConnectionCloseOneResponseThenClosed ==
    \A c \in Conns : \A k \in 1..Len(parsed[c]) :
        (SaysClose(parsed[c][k].lines) /\ faults[c] = {}) =>
            /\ ~parsed[c][k].req.keep_alive
            /\ k = Len(parsed[c])
            /\ pc[c] # "Responding" =>
                  /\ pc[c] = "Closed"
                  /\ Cardinality(ResponsesOf(c, k)) = 1

(* ------------------------------------------------------------------ *)
(* C4, C6                                                              *)
(* ------------------------------------------------------------------ *)

\* C4: the first request of a connection, when well formed: if it declares
\* Content-Length: L and carries L body bytes, the Request that leaves the
\* body stage has exactly those L bytes as body, however the bytes were
\* segmented; if it declares no length, the body is empty and the body
\* stage read nothing.
C4_BodyMatchesDeclaredLength ==
    \A c \in Conns :
        (Len(parsed[c]) >= 1 /\ WellFormed(env[c].script[1]) /\ faults[c] = {}) =>
            /\ LengthLines(env[c].script[1]) # {} =>
                  parsed[c][1].req.body = env[c].script[1].body
            /\ LengthLines(env[c].script[1]) = {} =>
                  parsed[c][1].req.body = <<>> /\ parsed[c][1].nread = 0

\* C6: a request that declared Content-Length L reaches the response
\* stage only with all L bytes read: none is handed on, and none is
\* answered, after a read that returned fewer than L bytes.
C6_ShortBodyReadIsFatal ==
    \A c \in Conns : \A k \in 1..Len(parsed[c]) :
        parsed[c][k].declared => parsed[c][k].nread = parsed[c][k].length


(* ------------------------------------------------------------------ *)
(* C5                                                                  *)
(* ------------------------------------------------------------------ *)

\* response i of c is a 400 and answers a malformed request line
AnswersBadLine(c, i) ==
    /\ wire[c][i].cycle <= Len(reqlines[c])
    /\ TokenCount(reqlines[c][wire[c][i].cycle]) # 3

\* every 400 is the last response of its connection, which is Closed
Every400Closes(c) ==
    \A i \in 1..Len(wire[c]) :
        wire[c][i].status = BAD_REQUEST => i = Len(wire[c]) /\ pc[c] = "Closed"

\* C5 as stated: a 400 is written only for a malformed request line, and
\* any I/O fault (request-line read, header read, body read, write or
\* flush) closes the connection with no response written in that cycle.
C5_OnlyBadLineGets400 ==
    \A c \in Conns :
        /\ Every400Closes(c)
        /\ \A i \in 1..Len(wire[c]) :
              wire[c][i].status = BAD_REQUEST => AnswersBadLine(c, i)
        /\ faults[c] # {} => pc[c] = "Closed" /\ ResponsesOf(c, cycle[c]) = {}

\* C5 amended: a 400 is written for a malformed request line and for a
\* failed read of the request line, and for nothing else; a failed read of
\* a header line or of the body, and a failed write or flush, end the
\* worker at once with no complete response written in that cycle.
C5_Amended_400ForBadLineOrLineReadError ==
    \A c \in Conns :
        /\ Every400Closes(c)
        /\ \A i \in 1..Len(wire[c]) :
              wire[c][i].status = BAD_REQUEST =>
                  \/ AnswersBadLine(c, i)
                  \/ "read_request_line" \in faults[c] /\ wire[c][i].cycle = cycle[c]
        /\ faults[c] \cap {"read_header", "read_body", "write"} # {} =>
              /\ pc[c] = "Closed"
              /\ panicked[c]
              /\ ResponsesOf(c, cycle[c]) = {}
        /\ ("read_request_line" \in faults[c] /\ "write" \notin faults[c]) =>
              /\ pc[c] = "Closed"
              /\ ResponsesOf(c, cycle[c]) = {Len(wire[c])}
              /\ wire[c][Len(wire[c])].status = BAD_REQUEST

\* a failed header read on a second request: closed by panic after the
\* one 204 of the first cycle
C5_Witness ==
    \E c \in Conns :
        /\ faults[c] = {"read_header"}
        /\ cycle[c] = 2
        /\ pc[c] = "Closed"
        /\ Len(wire[c]) = 1

(* ------------------------------------------------------------------ *)
(* C7                                                                  *)
(* ------------------------------------------------------------------ *)

CloseLine == Hdr(CONNECTION_HEADER, CLOSE)

\* C7: a parsed request with a header line whose name is Connection in
\* any letter case and whose value is close has keep_alive false, and each
\* response to it carries Connection: close.
C7_ConnectionNameAnyCase ==
    \A c \in Conns : \A k \in 1..Len(parsed[c]) :
        (\E i \in 1..Len(parsed[c][k].lines) :
            /\ Cardinality(SepAt(parsed[c][k].lines[i])) = 1
            /\ SameName(NameOf(parsed[c][k].lines[i]), CONNECTION_HEADER)
            /\ ValueOf(parsed[c][k].lines[i]) = CLOSE)
        => /\ ~parsed[c][k].req.keep_alive
           /\ \A i \in ResponsesOf(c, k) : CloseLine \in wire[c][i].lines

(* ------------------------------------------------------------------ *)
(* C8, C9                                                              *)
(* ------------------------------------------------------------------ *)

\* a header table has one entry per case-insensitive name in raw, and get
\* returns the value raw holds
OneEntryPerName(h) ==
    /\ \A p \in h.raw : \A q \in h.raw : SameName(p[1], q[1]) => p = q
    /\ \A p \in h.raw : has(h, p[1]) /\ get(h, p[1]) = p[2]
    /\ Cardinality(h.kv) = Cardinality(h.raw)

\* C8: after any sequence of add calls the header table of a request holds
\* one entry per case-insensitive name in both views, with the value of
\* the last add.
C8_OneEntryPerCaseInsensitiveName ==
    \A c \in Conns : OneEntryPerName(request[c].headers)

\* the emitted header lines of a response whose name is n in any case
LinesNamed(lines, n) == {l \in lines : SepAt(l) # {} /\ SameName(NameOf(l), n)}

\* C9: in every response on the wire Content-Length, Content-Type and
\* Connection each stand on exactly one header line, with the serializer's
\* value.
C9_ServerHeadersOncePerResponse ==
    \A c \in Conns : \A i \in 1..Len(wire[c]) :
        /\ LinesNamed(wire[c][i].lines, CONTENT_LENGTH_HEADER) =
              {Hdr(CONTENT_LENGTH_HEADER, to_string(Len(wire[c][i].body)))}
        /\ LinesNamed(wire[c][i].lines, CONTENT_TYPE_HEADER) =
              {Hdr(CONTENT_TYPE_HEADER, TEXT_HTML)}
        /\ \/ LinesNamed(wire[c][i].lines, CONNECTION_HEADER) =
                 {Hdr(CONNECTION_HEADER, KEEP_ALIVE)}
           \/ LinesNamed(wire[c][i].lines, CONNECTION_HEADER) =
                 {Hdr(CONNECTION_HEADER, CLOSE)}

(* ------------------------------------------------------------------ *)
(* C10                                                                 *)
(* ------------------------------------------------------------------ *)

\* the table built from header lines by storing each line the rule takes,
\* the text before its first separator as name and all the text after it
\* as value.  With anyCount the rule takes every line that has a
\* separator; without it, only the lines that have exactly one.
RECURSIVE TableOf(_, _, _)
TableOf(lines, anyCount, h) ==
    IF lines = <<>> THEN h
    ELSE TableOf(Tail(lines), anyCount,
                 IF \/ Cardinality(SepAt(Head(lines))) = 1
                    \/ anyCount /\ SepAt(Head(lines)) # {}
                 THEN add(h, NameOf(Head(lines)), ValueOf(Head(lines)))
                 ELSE h)

\* C10 as stated: the parser splits each header line at the first ": "
\* only: a line with one or more separators is stored, its value being all
\* the text after the first; only lines with none are ignored.
C10_SplitAtFirstSeparator ==
    \A c \in Conns :
        request[c].headers = TableOf(chunks[c], TRUE, HeadersNew)

\* C10 amended: a header line (a chunk longer than 2 bytes) with exactly
\* one ": " is stored, name before it and value after it; a line with none
\* or with more than one is ignored.
C10_Amended_ExactlyOneSeparator ==
    \A c \in Conns :
        request[c].headers = TableOf(chunks[c], FALSE, HeadersNew)

\* the header stage has passed a line with two separators and stored a
\* later line
C10_Witness ==
    \E c \in Conns :
        /\ pc[c] = "Responding"
        /\ \E i \in 1..Len(chunks[c]) : Cardinality(SepAt(chunks[c][i])) = 2
        /\ request[c].headers.raw # {}


(* ------------------------------------------------------------------ *)
(* C11                                                                 *)
(* ------------------------------------------------------------------ *)

RemoveAt(lines, i) == SubSeq(lines, 1, i - 1) \o SubSeq(lines, i + 1, Len(lines))

\* the Request the parser builds from request r when header line i is
\* left out of it, up to the body stage
WithoutLine(r, i) ==
    HeaderStage(NewRequest(r.line), Append(RemoveAt(r.headers, i), r.blank))

\* the first Request parsed on c has the method, path, version, header
\* table, keep_alive flag and declared body length of the Request q
SameRequest(c, q) ==
    /\ parsed[c][1].req.method = q.method
    /\ parsed[c][1].req.path = q.path
    /\ parsed[c][1].req.version = q.version
    /\ parsed[c][1].req.headers = q.headers
    /\ parsed[c][1].req.keep_alive = q.keep_alive
    /\ parsed[c][1].declared = content_length_ok(q.headers)
    /\ parsed[c][1].declared => parsed[c][1].length = content_length(q.headers)

\* the header lines of r that lack the separator
BareLines(r) == {i \in 1..Len(r.headers) : SepAt(r.headers[i]) = {}}

\* C11: for the first request of a connection (blank line sent) and every
\* header line of it without ": ", whatever the line's length, the Request
\* that leaves the header stage is the one the same request without that
\* line gives.
C11_BareLineOfAnyLengthDropped ==
    \A c \in Conns :
        (Len(parsed[c]) >= 1 /\ env[c].script[1].blank = CRLF) =>
            \A i \in BareLines(env[c].script[1]) :
                SameRequest(c, WithoutLine(env[c].script[1], i))

(* ------------------------------------------------------------------ *)
(* C12                                                                 *)
(* ------------------------------------------------------------------ *)

\* the three names send_response always sets
ServerNames == {CONTENT_LENGTH_HEADER, CONTENT_TYPE_HEADER, CONNECTION_HEADER}

\* the (case-insensitive name, value) pairs of the entries a table emits,
\* apart from the three names of the serializer
PairsOf(h) ==
    {<<to_lowercase(p[1]), p[2]>> : p \in
        {q \in iter(h) : \A n \in ServerNames : ~SameName(q[1], n)}}

\* text that holds neither the separator ": " nor a line feed
PlainText(t) ==
    /\ ~HasLF(t)
    /\ \A i \in 1..(Len(t) - 1) : ~(t[i] = ":" /\ t[i + 1] = SP)

\* C12 as stated: whatever add calls built the table, once its lines are
\* written and read back by the header loop, the table read back has the
\* same (case-insensitive name, value) pairs, apart from Content-Length,
\* Content-Type and Connection.
C12_RoundTripOfAnyTable ==
    tpc = "Done" => PairsOf(reread.headers) = PairsOf(table)

\* C12 amended: the same for tables whose names and values hold neither
\* the separator ": " nor a line feed.
C12_Amended_RoundTripOfPlainText ==
    (tpc = "Done" /\ \A i \in 1..Len(added) :
                        PlainText(added[i][1]) /\ PlainText(added[i][2])) =>
        PairsOf(reread.headers) = PairsOf(table)

\* a table of plain text with two entries went through and came back
C12_Witness ==
    /\ tpc = "Done"
    /\ \A i \in 1..Len(added) : PlainText(added[i][1]) /\ PlainText(added[i][2])
    /\ Cardinality(PairsOf(table)) = 2
    /\ PairsOf(reread.headers) = PairsOf(table)

(* ------------------------------------------------------------------ *)
(* C13                                                                 *)
(* ------------------------------------------------------------------ *)

\* the add calls made so far whose name is n up to letter case
AddsOf(n) == {i \in 1..Len(added) : SameName(added[i][1], n)}
LastAddOf(n) == CHOOSE i \in AddsOf(n) : \A j \in AddsOf(n) : j <= i

\* C13: get(N2) returns the value of the last add whose name equals N2 up
\* to letter case, and absent when no add had such a name.
C13_GetIgnoresCase ==
    tpc = "Looked" =>
        IF AddsOf(looked.name) = {} THEN ~looked.found
        ELSE /\ looked.found
             /\ looked.value = added[LastAddOf(looked.name)][2]

\* get found the value under a name written in the other case
C13_Witness ==
    /\ tpc = "Looked"
    /\ looked.found
    /\ AddsOf(looked.name) # {}
    /\ added[LastAddOf(looked.name)][1] # looked.name

(* ------------------------------------------------------------------ *)
(* C14                                                                 *)
(* ------------------------------------------------------------------ *)

\* the read of the request line on c can only return zero bytes: the
\* worker awaits a request, has read nothing of it, and the peer has
\* closed after its last byte was read
AtEndOfStream(c) ==
    pc[c] = "AwaitingRequest" /\ acc[c] = <<>> /\ buf[c] = <<>> /\ Eof(c)

\* C14: when the read of the request line returns zero bytes (the worker
\* steps at the end of the stream and no I/O fault occurs), the worker
\* goes to Closed, nothing is written in that cycle, and no later cycle
\* runs: a Closed worker stays Closed and writes nothing.
C14_ZeroReadClosesSilently ==
    [][\A c \in Conns :
          /\ (AtEndOfStream(c) /\ pc'[c] # pc[c] /\ faults'[c] = faults[c]) =>
                /\ pc'[c] = "Closed"
                /\ wire'[c] = wire[c]
                /\ ~partial'[c]
                /\ ~panicked'[c]
                /\ cycle'[c] = cycle[c]
          /\ pc[c] = "Closed" =>
                pc'[c] = "Closed" /\ wire'[c] = wire[c] /\ cycle'[c] = cycle[c]]_vars

\* after one answered request the peer closed, and the second cycle ended
\* the connection on the zero-byte read without writing
C14_Witness ==
    \E c \in Conns :
        /\ env[c].hangup
        /\ pc[c] = "Closed"
        /\ cycle[c] = 2
        /\ Len(reqlines[c]) = 1
        /\ Len(wire[c]) = 1
        /\ faults[c] = {} /\ ~panicked[c] /\ ~partial[c]

(* ------------------------------------------------------------------ *)
(* C15                                                                 *)
(* ------------------------------------------------------------------ *)

\* the peer of c has sent all it had and closed its end
Disconnected(c) == env[c].hangup /\ peer[c] = <<>>

\* the request being read on c had a Connection: close that cleared
\* keep_alive
CloseObserved(c) ==
    pc[c] \in {"Headers", "Body", "Responding"} /\ ~request[c].keep_alive

\* the last request line read on c does not split in three
FatalParseFault(c) ==
    reqlines[c] # <<>> /\ TokenCount(reqlines[c][Len(reqlines[c])]) # 3

\* C15: under fair scheduling, once the peer of an accepted connection
\* has disconnected, or a fatal parse fault has occurred on it, or a
\* Connection: close has been observed on it, its worker eventually
\* reaches Closed.
C15_SessionEventuallyDestroyed ==
    \A c \in Conns :
        (pc[c] # "Listening" /\
            (Disconnected(c) \/ FatalParseFault(c) \/ CloseObserved(c)))
        ~> (pc[c] = "Closed")

(* ------------------------------------------------------------------ *)
(* C16                                                                 *)
(* ------------------------------------------------------------------ *)

\* all there is to connection c: its transport, its worker, what was
\* written on it and the faults that hit it
ConnState(c) ==
    <<peer[c], sock[c], buf[c], acc[c], pc[c], cycle[c], request[c],
      chunks[c], wire[c], reqlines[c], parsed[c], faults[c], panicked[c],
      partial[c], lost[c]>>

\* C16: with two connections open at once and their steps interleaved in
\* any order, a step that changes anything of one connection (a read, a
\* response, a parse fault, an I/O fault, a panic of its worker) leaves
\* everything of the other connection as it was; and a connection gets
\* its worker once: an accepted connection is never accepted again.
C16_ConnectionsIsolated ==
    [][\A c \in Conns :
          /\ \A d \in Conns \ {c} :
                ConnState(c)' # ConnState(c) => ConnState(d)' = ConnState(d)
          /\ pc[c] # "Listening" => pc'[c] # "Listening"]_vars

\* the worker of one connection has ended in a panic and the worker of the
\* other is in the middle of a request
C16_Witness ==
    \E c \in Conns : \E d \in Conns \ {c} :
        /\ panicked[c]
        /\ pc[d] \in {"Headers", "Body", "Responding"}

(* ------------------------------------------------------------------ *)
(* C17                                                                 *)
(* ------------------------------------------------------------------ *)

\* the Connection header lines of response i on c
ConnectionLines(c, i) == LinesNamed(wire[c][i].lines, CONNECTION_HEADER)

\* C17: whenever a response is written on a connection, be it a 204 or a
\* 400, it carries one Connection header line, and that line says close
\* exactly when the worker is Closed once the response is out, and
\* keep-alive exactly when the worker is back in AwaitingRequest.
C17_ConnectionHeaderMatchesDriver ==
    [][\A c \in Conns :
          Len(wire'[c]) = Len(wire[c]) + 1 =>
             \A written \in {wire'[c][Len(wire'[c])].lines} :
             \A said \in {LinesNamed(written, CONNECTION_HEADER)} :
                /\ said \in {{Hdr(CONNECTION_HEADER, CLOSE)},
                             {Hdr(CONNECTION_HEADER, KEEP_ALIVE)}}
                /\ pc'[c] \in {"Closed", "AwaitingRequest"}
                /\ said = {Hdr(CONNECTION_HEADER, CLOSE)} <=> pc'[c] = "Closed"
                /\ said = {Hdr(CONNECTION_HEADER, KEEP_ALIVE)} <=>
                      pc'[c] = "AwaitingRequest"]_vars

\* a 204 that said keep-alive was followed by another cycle, whose 400
\* said close and ended the connection
C17_Witness ==
    \E c \in Conns :
        /\ Len(wire[c]) = 2
        /\ wire[c][1].status = NO_CONTENT
        /\ ConnectionLines(c, 1) = {Hdr(CONNECTION_HEADER, KEEP_ALIVE)}
        /\ wire[c][2].status = BAD_REQUEST
        /\ wire[c][2].cycle = 2
        /\ ConnectionLines(c, 2) = {Hdr(CONNECTION_HEADER, CLOSE)}
        /\ pc[c] = "Closed"

(* ------------------------------------------------------------------ *)
(* C18                                                                 *)
(* ------------------------------------------------------------------ *)

\* C18: the k-th request parsed on a connection is the request of cycle
\* k.  A response written in that cycle means the request's headers hold
\* Host (looked up in any case), and the response is a 204 with one Host
\* line that carries the value get("Host") gives.  If the request holds
\* no Host, then once the response stage is over the worker has ended in
\* a panic, the connection is Closed, and no response and no part of one
\* was written in that cycle.
C18_ResponseOnlyWithHost ==
    \A c \in Conns : \A k \in 1..Len(parsed[c]) :
        /\ \A i \in ResponsesOf(c, k) :
              /\ has(parsed[c][k].req.headers, HOST_HEADER)
              /\ wire[c][i].status = NO_CONTENT
              /\ LinesNamed(wire[c][i].lines, HOST_HEADER) =
                    {Hdr(HOST_HEADER, get(parsed[c][k].req.headers, HOST_HEADER))}
        /\ (~has(parsed[c][k].req.headers, HOST_HEADER) /\ pc[c] # "Responding") =>
              /\ k = Len(parsed[c])
              /\ pc[c] = "Closed"
              /\ panicked[c]
              /\ ~partial[c]
              /\ ResponsesOf(c, k) = {}

\* a request with a valid request line and no Host was parsed, and its
\* worker ended in a panic with nothing written
C18_Witness ==
    \E c \in Conns :
        /\ Len(parsed[c]) = 1
        /\ ~has(parsed[c][1].req.headers, HOST_HEADER)
        /\ pc[c] = "Closed"
        /\ panicked[c]
        /\ faults[c] = {}
        /\ wire[c] = <<>>

(* ------------------------------------------------------------------ *)
(* C19                                                                 *)
(* ------------------------------------------------------------------ *)

\* C19: on a connection that goes from one cycle to the next, no byte the
\* worker has taken from the socket into its read buffer is dropped: what
\* a cycle did not consume is still there for the next cycle.
C19_NoByteLostBetweenCycles ==
    \A c \in Conns : lost[c] = <<>>

(* ------------------------------------------------------------------ *)
(* C20                                                                 *)
(* ------------------------------------------------------------------ *)

\* the worker of c is in the header loop and its read returns a chunk of
\* raw length 0, 1 or 2
ShortChunkRead(c) ==
    pc[c] = "Headers" /\ CanRead(c) /\ LineDone(c) /\ Len(Line(c)) <= 2

\* the worker of c takes a step in which no I/O fault occurs
WorkerMoves(c) ==
    (pc'[c] # pc[c] \/ chunks'[c] # chunks[c]) /\ faults'[c] = faults[c]

\* C20: in the header loop a read that returns a chunk of raw length 2 or
\* less (a blank line, a one-character line, or nothing because the peer
\* closed) ends the header stage: the worker goes on to the body stage
\* with the Request as the lines read so far made it, nothing is written
\* and the connection is not closed; and the body stage, unless its read
\* fails, hands that Request with those headers on to the response stage.
C20_ShortChunkEndsHeaders ==
    [][\A c \in Conns :
          /\ (ShortChunkRead(c) /\ WorkerMoves(c)) =>
                /\ pc'[c] = "Body"
                /\ request'[c] = request[c]
                /\ chunks'[c] = chunks[c]
                /\ wire'[c] = wire[c]
          /\ (pc[c] = "Body" /\ WorkerMoves(c)) =>
                /\ pc'[c] = "Responding"
                /\ request'[c].headers = request[c].headers
                /\ request'[c].keep_alive = request[c].keep_alive
                /\ Len(parsed'[c]) = Len(parsed[c]) + 1
                /\ parsed'[c][Len(parsed'[c])].lines = chunks[c]]_vars

\* a request that stopped after its Host line, the peer closing there,
\* was answered with a 204
C20_Witness ==
    \E c \in Conns :
        /\ env[c].script = <<R_Truncated>>
        /\ env[c].hangup
        /\ Len(wire[c]) = 1
        /\ wire[c][1].status = NO_CONTENT
        /\ Len(parsed[c]) = 1
        /\ parsed[c][1].lines = <<H_Host>>

====
